---- MODULE Spec2Model ----
(***************************************************************************)
(* Sampling orchestration of batmon-ha (src/main.py): the fetch loop with  *)
(* its consecutive-error abort, the two scheduling disciplines of main     *)
(* (one loop per task, or one shared loop over a shuffled task list), the  *)
(* process-wide shutdown flag and main's final disconnect pass.            *)
(*                                                                         *)
(* asyncio runs coroutines on one thread: a coroutine runs without         *)
(* interruption from one await to the next, so every action below is one   *)
(* such segment.  Only the signal handler on_exit can run at any moment.   *)
(* An awaited operation on a device (or the period sleep) is a state in    *)
(* which the coroutine is suspended; its outcome is chosen by the          *)
(* environment when it completes.                                          *)
(***************************************************************************)
EXTENDS Integers, Sequences, FiniteSets, TLC

VARIABLES
    parallel_fetch,   \* user_config concurrent_sampling
    bms_list,         \* sequence of configured device adapters
    extra_tasks,      \* sequence of auxiliary tasks (the victron shunt fetch)
    shutdown,         \* the global flag
    mpc,              \* position of main / of the process
    mi,               \* index of the task (warm-up) or adapter (disconnect) main awaits
    lpc,              \* position of every fetch_loop
    num_errors_row,   \* fetch_loop's local counter, per loop
    last,             \* outcome of the loop's latest completed fn(): "none", "ok", "fail"
    before,           \* value of num_errors_row when that fn() completed
    raised,           \* the exception that fn() raised ("none" if it returned)
    order,            \* shared discipline: the shuffled task list of the cycle
    idx,              \* shared discipline: index in order of the task being awaited
    exceptions,       \* shared discipline: exceptions collected in the cycle
    trace,            \* shared discipline: <<task, ok>> of the tasks awaited in the cycle
    warm,             \* the tasks main invoked in the warm-up pass, in order
    wfirst,           \* the first task whose warm-up invocation raised, or "none"
    disc,             \* the adapters main called disconnect() on, in order
    dfirst,           \* the first adapter whose disconnect() raised, or "none"
    exit_status,      \* <<>> while running, then <<the status the process exited with>>
    ncalls,           \* observer: calls of fn() made by each loop
    npub,             \* observer: invocations of each task that returned (sample published)
    spc,              \* sample_bms: the statement the invocation is at
    has_temps,        \* sample_bms: sample.temperatures is truthy
    ops,              \* sample_bms: the operations the invocation began, in order
    published,        \* sample_bms: what the invocation handed to the publish sink, in order
    released,         \* sample_bms: number of times bms.__aexit__ ran in the invocation
    acquired,         \* sample_bms: bms.__aenter__ has returned
    ex,               \* sample_bms: the operation whose exception is propagating, or "none"
    rpc,              \* device resolution: position in the head of main
    identifier,       \* device resolution: the configured identifier (a string)
    devices,          \* device resolution: main's local devices, a list of {name, address}
    address           \* device resolution: <<what dev2addr(identifier) returned>>

\* the state of main and of the fetch loops
mvars == <<parallel_fetch, bms_list, extra_tasks, shutdown, mpc, mi, lpc,
           num_errors_row, last, before, raised, order, idx, exceptions, trace,
           warm, wfirst, disc, dfirst, exit_status>>

counters == <<ncalls, npub>>

\* the state of one invocation of sample_bms
svars == <<spc, has_temps, ops, published, released, acquired, ex>>

\* the state of the device resolution at the head of main
rvars == <<rpc, identifier, devices, address>>

vars == <<mvars, counters, svars, rvars>>

config == <<parallel_fetch, bms_list, extra_tasks>>
cycle == <<order, idx, exceptions, trace>>
logs == <<warm, wfirst, disc, dfirst, exit_status>>

\* default of fetch_loop's parameter; neither caller overrides it
max_errors == 4

Devices == {"daly_bms", "jbd_bms"}
Extras == {"victron"}
LoopIds == Devices \cup Extras \cup {"fn"}

\* tasks = [sample_bms(bms) for bms in bms_list] + extra_tasks
tasks == bms_list \o extra_tasks

Range(s) == {s[i] : i \in 1..Len(s)}

\* the fetch loops that main creates: one per task, or the single shared one
Loops == IF parallel_fetch THEN Range(tasks) ELSE {"fn"}

\* random.shuffle(tasks): any arrangement of the list
Shuffles(s) ==
    {p \in [1..Len(s) -> Range(s)] : \A i, j \in 1..Len(s) : i # j => p[i] # p[j]}

\* no invocation of sample_bms has begun
SampleIdle ==
    /\ spc = "__aenter__"
    /\ has_temps = FALSE
    /\ ops = <<>>
    /\ published = <<>>
    /\ released = 0
    /\ acquired = FALSE
    /\ ex = "none"

\* the device resolution is over (no device identifier is looked at)
ResolverIdle ==
    /\ rpc = "done"
    /\ identifier = <<>>
    /\ devices = <<>>
    /\ address = <<>>

MainInit ==
    /\ parallel_fetch \in BOOLEAN
    /\ bms_list \in {<<>>, <<"daly_bms">>, <<"jbd_bms">>, <<"daly_bms", "jbd_bms">>}
    /\ extra_tasks \in {<<>>, <<"victron">>}
    /\ shutdown = FALSE
    /\ mpc = "setup"
    /\ mi = 0
    /\ lpc = [l \in LoopIds |-> "init"]
    /\ num_errors_row = [l \in LoopIds |-> 0]
    /\ last = [l \in LoopIds |-> "none"]
    /\ before = [l \in LoopIds |-> 0]
    /\ raised = [l \in LoopIds |-> "none"]
    /\ order = <<>>
    /\ idx = 0
    /\ exceptions = <<>>
    /\ trace = <<>>
    /\ warm = <<>>
    /\ wfirst = "none"
    /\ disc = <<>>
    /\ dfirst = "none"
    /\ exit_status = <<>>
    /\ ncalls = [l \in LoopIds |-> 0]
    /\ npub = [t \in LoopIds |-> 0]

Init == MainInit /\ SampleIdle /\ ResolverIdle

-----------------------------------------------------------------------------
(* The pieces of fetch_loop and of main.fn *)

\* a loop that never looks at the flag
LoopCondAlways(flag) == TRUE

\* while not shutdown
LoopCond(flag) == ~flag

\* a success that leaves the counter alone
OnSuccessKeep(n) == n

\* num_errors_row = 0
OnSuccess(n) == 0

\* num_errors_row += 1
OnFailure(n) == n + 1

\* thresholds off by one, either way
AbandonLate(n) == n > max_errors + 1

AbandonEarly(n) == n >= max_errors

\* if num_errors_row > max_errors: break
Abandon(n) == n > max_errors

\* raising the last collected exception instead of the first
RaisedByLast(excs) == excs[Len(excs)]

\* raise exceptions[0]
RaisedBy(excs) == excs[1]

\* a pass that stops at the first task that raises
CycleOverOnError(i, n, ok) == i = n \/ ~ok

\* for t in tasks: the pass is over after the last task, whatever its outcome
CycleOver(i, n, ok) == i = n

\* a main that returns without setting the flag
MainFlagKeep(flag) == flag

\* shutdown = True, at the end of main
MainFlag(flag) == TRUE

\* a handler that toggles the flag
ExitFlagToggle(flag) == ~flag

\* def on_exit: shutdown = True
ExitFlag(flag) == TRUE

\* a warm-up pass that lets the exception of a task through
WarmupCaughtOnlyOk(ok) == ok

\* try: await t() except: pass -- whatever t() raises is caught
WarmupCaught(ok) == TRUE

\* a disconnect pass that lets the exception of disconnect() through
DisconnectCaughtOnlyOk(ok) == ok

\* try: await bms.disconnect() except: pass
DisconnectCaught(ok) == TRUE

\* exit(1); an exception that leaves main ends the interpreter with 1 as well
ExitCode == 1

-----------------------------------------------------------------------------
(* main after the scheduler returned: set the flag, then disconnect every  *)
(* adapter of bms_list in turn; the first disconnect is awaited at once.   *)
MainAfterScheduler ==
    /\ shutdown' = MainFlag(shutdown)
    /\ IF Len(bms_list) > 0
       THEN mpc' = "disconnect" /\ mi' = 1
       ELSE mpc' = "returned" /\ mi' = 0

\* a fetch_loop leaves its while loop.  In the shared discipline the loop
\* runs inside main, which goes on without an await in between.
LoopEnds(l) ==
    /\ lpc' = [lpc EXCEPT ![l] = "done"]
    /\ IF parallel_fetch
       THEN UNCHANGED <<shutdown, mpc, mi>>
       ELSE MainAfterScheduler

\* a fetch_loop whose failure counter is one global shared by all loops
FnDoneGlobalCounter(l, exc) ==
    /\ before' = [before EXCEPT ![l] = num_errors_row[l]]
    /\ raised' = [raised EXCEPT ![l] = exc]
    /\ IF exc = "none"
       THEN /\ num_errors_row' = [k \in LoopIds |-> IF k \in Loops THEN 0 ELSE num_errors_row[k]]
            /\ last' = [last EXCEPT ![l] = "ok"]
            /\ lpc' = [lpc EXCEPT ![l] = "sleep"]
            /\ UNCHANGED <<shutdown, mpc, mi>>
       ELSE /\ num_errors_row' = [k \in LoopIds |->
                                    IF k \in Loops /\ (k = l \/ lpc[k] \in {"ready", "run", "sleep"})
                                    THEN OnFailure(num_errors_row[k]) ELSE num_errors_row[k]]
            /\ last' = [last EXCEPT ![l] = "fail"]
            /\ IF Abandon(num_errors_row'[l])
               THEN LoopEnds(l)
               ELSE /\ lpc' = [lpc EXCEPT ![l] = "sleep"]
                    /\ UNCHANGED <<shutdown, mpc, mi>>

\* fn() of loop l completed: exc is "none" when it returned, else the
\* exception it raised.  The loop then awaits the period sleep or breaks.
FnDone(l, exc) ==
    /\ before' = [before EXCEPT ![l] = num_errors_row[l]]
    /\ raised' = [raised EXCEPT ![l] = exc]
    /\ IF exc = "none"
       THEN /\ num_errors_row' = [num_errors_row EXCEPT ![l] = OnSuccess(@)]
            /\ last' = [last EXCEPT ![l] = "ok"]
            /\ lpc' = [lpc EXCEPT ![l] = "sleep"]
            /\ UNCHANGED <<shutdown, mpc, mi>>
       ELSE /\ num_errors_row' = [num_errors_row EXCEPT ![l] = OnFailure(@)]
            /\ last' = [last EXCEPT ![l] = "fail"]
            /\ IF Abandon(num_errors_row'[l])
               THEN LoopEnds(l)
               ELSE /\ lpc' = [lpc EXCEPT ![l] = "sleep"]
                    /\ UNCHANGED <<shutdown, mpc, mi>>

-----------------------------------------------------------------------------
(* Actions *)

\* the handler of SIGTERM and SIGINT
on_exit ==
    /\ mpc # "exited"
    /\ shutdown' = ExitFlag(shutdown)
    /\ UNCHANGED <<config, mpc, mi, lpc, num_errors_row, last, before, raised, cycle, logs>>

\* main reaches the scheduler.  Independent loops: the warm-up pass comes
\* first; with no task at all asyncio.wait is given an empty list and raises
\* ValueError, which nothing in main catches.  Shared loop: main enters
\* fetch_loop(fn).
MainStart ==
    /\ mpc = "setup"
    /\ IF parallel_fetch
       THEN /\ IF Len(tasks) > 0
               THEN mpc' = "warmup" /\ mi' = 1
               ELSE mpc' = "crashed" /\ mi' = 0
            /\ UNCHANGED lpc
       ELSE /\ mpc' = "loop" /\ mi' = 0
            /\ lpc' = [lpc EXCEPT !["fn"] = "ready"]
    /\ UNCHANGED <<config, shutdown, num_errors_row, last, before, raised, cycle, logs>>

\* for t in tasks: try: await t() except: pass -- then the loops are created
\* and main awaits asyncio.wait(loops, return_when='FIRST_COMPLETED')
WarmupDone(ok) ==
    /\ mpc = "warmup"
    /\ warm' = Append(warm, tasks[mi])
    /\ wfirst' = IF ~ok /\ wfirst = "none" THEN tasks[mi] ELSE wfirst
    /\ IF ~WarmupCaught(ok)
       THEN /\ mi' = 0
            /\ mpc' = "crashed"
            /\ UNCHANGED lpc
       ELSE IF mi < Len(tasks)
       THEN /\ mi' = mi + 1
            /\ UNCHANGED <<mpc, lpc>>
       ELSE /\ mi' = 0
            /\ mpc' = "wait"
            /\ lpc' = [l \in LoopIds |-> IF l \in Loops THEN "ready" ELSE lpc[l]]
    /\ UNCHANGED <<config, shutdown, num_errors_row, last, before, raised, cycle,
                   disc, dfirst, exit_status>>

\* top of the while loop of fetch_loop, reached when the task first runs and
\* each time the period sleep returns: leave, or call fn() up to its first await
LoopTop(l) ==
    /\ l \in Loops
    /\ lpc[l] \in {"ready", "sleep"}
    /\ IF ~LoopCond(shutdown)
       THEN /\ LoopEnds(l)
            /\ UNCHANGED <<num_errors_row, last, before, raised, cycle>>
       ELSE IF parallel_fetch
       THEN /\ lpc' = [lpc EXCEPT ![l] = "run"]
            /\ UNCHANGED <<shutdown, mpc, mi, num_errors_row, last, before, raised, cycle>>
       ELSE /\ exceptions' = <<>>
            /\ trace' = <<>>
            /\ \E p \in Shuffles(tasks) : order' = p
            /\ IF Len(tasks) > 0
               THEN /\ idx' = 1
                    /\ lpc' = [lpc EXCEPT ![l] = "run"]
                    /\ UNCHANGED <<shutdown, mpc, mi, num_errors_row, last, before, raised>>
               ELSE /\ idx' = 0
                    /\ FnDone(l, "none")
    /\ UNCHANGED <<config, logs>>

\* independent loops: the task awaited by loop l returns or raises
TaskDone(l, ok) ==
    /\ parallel_fetch
    /\ l \in Loops
    /\ lpc[l] = "run"
    /\ FnDone(l, IF ok THEN "none" ELSE l)
    /\ UNCHANGED <<config, cycle, logs>>

\* shared loop: the task awaited inside fn returns or raises; fn goes on to
\* the next task of the shuffled list, and after the last one raises the
\* first collected exception or returns
CycleTaskDone(ok) ==
    /\ ~parallel_fetch
    /\ lpc["fn"] = "run"
    /\ trace' = Append(trace, <<order[idx], ok>>)
    /\ exceptions' = IF ok THEN exceptions ELSE Append(exceptions, order[idx])
    /\ IF CycleOver(idx, Len(order), ok)
       THEN /\ FnDone("fn", IF exceptions' # <<>> THEN RaisedBy(exceptions') ELSE "none")
            /\ UNCHANGED <<order, idx>>
       ELSE /\ idx' = idx + 1
            /\ UNCHANGED <<order, shutdown, mpc, mi, lpc, num_errors_row, last, before, raised>>
    /\ UNCHANGED <<config, logs>>

\* independent loops: asyncio.wait returns once some loop has completed.
\* The loop tasks were made ready before main suspended, so each has run up
\* to its first await before main is resumed.
MainWaitReturns ==
    /\ mpc = "wait"
    /\ \A l \in Loops : lpc[l] # "ready"
    /\ \E l \in Loops : lpc[l] = "done"
    /\ MainAfterScheduler
    /\ UNCHANGED <<config, lpc, num_errors_row, last, before, raised, cycle, logs>>

\* await bms.disconnect() returns or raises (swallowed); next adapter, or
\* main returns
DisconnectDone(ok) ==
    /\ mpc = "disconnect"
    /\ disc' = Append(disc, bms_list[mi])
    /\ dfirst' = IF ~ok /\ dfirst = "none" THEN bms_list[mi] ELSE dfirst
    /\ IF ~DisconnectCaught(ok)
       THEN mi' = 0 /\ mpc' = "crashed"
       ELSE IF mi < Len(bms_list)
       THEN mi' = mi + 1 /\ UNCHANGED mpc
       ELSE mi' = 0 /\ mpc' = "returned"
    /\ UNCHANGED <<config, shutdown, lpc, num_errors_row, last, before, raised, cycle,
                   warm, wfirst, exit_status>>

\* asyncio.run(main()) ends: the tasks still pending are cancelled at the
\* await they are suspended in (CancelledError is no Exception, so the
\* except clause of fetch_loop does not catch it), then the interpreter
\* exits and runs the atexit handler on_exit
ProcessExit ==
    /\ mpc \in {"returned", "crashed"}
    /\ mpc' = "exited"
    /\ lpc' = [l \in LoopIds |->
                 IF lpc[l] \in {"ready", "run", "sleep"} THEN "cancelled" ELSE lpc[l]]
    /\ shutdown' = ExitFlag(shutdown)
    /\ exit_status' = <<ExitCode>>
    /\ UNCHANGED <<config, mi, num_errors_row, last, before, raised, cycle,
                   warm, wfirst, disc, dfirst>>

\* the observers are not kept
NoCount == UNCHANGED counters

\* a step that is no step of sample_bms and none of the device resolution
Apart == UNCHANGED <<svars, rvars>>

Next ==
    \/ on_exit /\ NoCount /\ Apart
    \/ MainStart /\ NoCount /\ Apart
    \/ \E ok \in BOOLEAN : WarmupDone(ok) /\ NoCount /\ Apart
    \/ \E l \in LoopIds : LoopTop(l) /\ NoCount /\ Apart
    \/ \E l \in LoopIds, ok \in BOOLEAN : TaskDone(l, ok) /\ NoCount /\ Apart
    \/ \E ok \in BOOLEAN : CycleTaskDone(ok) /\ NoCount /\ Apart
    \/ MainWaitReturns /\ NoCount /\ Apart
    \/ \E ok \in BOOLEAN : DisconnectDone(ok) /\ NoCount /\ Apart
    \/ ProcessExit /\ NoCount /\ Apart

Spec == Init /\ [][Next]_vars

\* fair scheduling: the event loop resumes every coroutine that can go on,
\* and every awaited operation and every sleep returns.  No signal has to
\* arrive.
FairSpec ==
    /\ Spec
    /\ WF_vars(MainStart /\ NoCount /\ Apart)
    /\ WF_vars(\E ok \in BOOLEAN : WarmupDone(ok) /\ NoCount /\ Apart)
    /\ \A l \in LoopIds : WF_vars(LoopTop(l) /\ NoCount /\ Apart)
    /\ \A l \in LoopIds : WF_vars(\E ok \in BOOLEAN : TaskDone(l, ok) /\ NoCount /\ Apart)
    /\ WF_vars(\E ok \in BOOLEAN : CycleTaskDone(ok) /\ NoCount /\ Apart)
    /\ WF_vars(MainWaitReturns /\ NoCount /\ Apart)
    /\ WF_vars(\E ok \in BOOLEAN : DisconnectDone(ok) /\ NoCount /\ Apart)
    /\ WF_vars(ProcessExit /\ NoCount /\ Apart)

-----------------------------------------------------------------------------
(* The two-device scenarios: daly_bms answers every call, jbd_bms fails    *)
(* every call, no signal arrives.  The observers count the calls of fn()  *)
(* and the invocations that returned; they stop counting at MaxCount.     *)

MaxCount == 6

Min(a, b) == IF a < b THEN a ELSE b

ScOutcome(t) == t = "daly_bms"

\* fetch_loop calls fn() iff its loop condition holds
CountCall(l) ==
    /\ ncalls' = [ncalls EXCEPT ![l] = IF LoopCond(shutdown) THEN Min(@ + 1, MaxCount) ELSE @]
    /\ UNCHANGED npub

\* sample_bms publishes the sample of an invocation that returns
CountPub(t, ok) ==
    /\ npub' = [npub EXCEPT ![t] = IF ok THEN Min(@ + 1, MaxCount) ELSE @]
    /\ UNCHANGED ncalls

ScenarioInit ==
    /\ Init
    /\ bms_list = <<"daly_bms", "jbd_bms">>
    /\ extra_tasks = <<>>

ScMainStart == MainStart /\ NoCount /\ Apart

ScWarmupDone == mpc = "warmup" /\ WarmupDone(ScOutcome(tasks[mi])) /\ NoCount /\ Apart

ScLoopTop(l) == LoopTop(l) /\ CountCall(l) /\ Apart

ScTaskDone(l) == TaskDone(l, ScOutcome(l)) /\ CountPub(l, ScOutcome(l)) /\ Apart

ScCycleTaskDone ==
    /\ ~parallel_fetch /\ lpc["fn"] = "run"
    /\ CycleTaskDone(ScOutcome(order[idx]))
    /\ CountPub(order[idx], ScOutcome(order[idx]))
    /\ Apart

ScMainWaitReturns == MainWaitReturns /\ NoCount /\ Apart

ScDisconnectDone == \E ok \in BOOLEAN : DisconnectDone(ok) /\ NoCount /\ Apart

ScProcessExit == ProcessExit /\ NoCount /\ Apart

ScenarioNext ==
    \/ ScMainStart
    \/ ScWarmupDone
    \/ \E l \in LoopIds : ScLoopTop(l)
    \/ \E l \in LoopIds : ScTaskDone(l)
    \/ ScCycleTaskDone
    \/ ScMainWaitReturns
    \/ ScDisconnectDone
    \/ ScProcessExit

\* every awaited operation and every sleep returns, and the event loop
\* resumes every coroutine that can go on
ScenarioFair ==
    /\ WF_vars(ScMainStart)
    /\ WF_vars(ScWarmupDone)
    /\ \A l \in LoopIds : WF_vars(ScLoopTop(l))
    /\ \A l \in LoopIds : WF_vars(ScTaskDone(l))
    /\ WF_vars(ScCycleTaskDone)
    /\ WF_vars(ScMainWaitReturns)
    /\ WF_vars(ScDisconnectDone)
    /\ WF_vars(ScProcessExit)

ScenarioSpec == ScenarioInit /\ [][ScenarioNext]_vars /\ ScenarioFair

-----------------------------------------------------------------------------
(* sample_bms statement by statement, for one adapter polled by its loop.  *)
(* Every awaited device operation and every publish call either returns or *)
(* raises.  bms.__aenter__ and bms.__aexit__ belong to bmslib: the model   *)
(* only has them return or raise.                                          *)

\* the adapter that is sampled
Sampled == "daly_bms"

\* the loop that calls sample_bms(Sampled)
Caller == IF parallel_fetch THEN Sampled ELSE "fn"

\* an invocation of sample_bms is in progress: main's warm-up call, or the
\* call made by the running loop
InSample == mpc = "warmup" \/ lpc[Caller] = "run"

\* a sample cycle that asks the device for its temperatures every time
NeedsFetchAlways(present) == TRUE

\* temperatures = sample.temperatures or await bms.fetch_temperatures()
NeedsFetch(present) == ~present

\* a handler that logs the exception and goes on
HandlerSwallows == "returned"

\* except Exception as ex: logger.error(...); raise
Handler == "raised"

\* async with bms: an exception in the body goes through bms.__aexit__
BodyLeft == "__aexit__"

\* bms.__aexit__ returns nothing, so the exception of the body goes on
Suppressed == FALSE

\* the statement at position op of the with body returns or raises
SampleOp(op, then, ok) ==
    /\ InSample
    /\ spc = op
    /\ ops' = Append(ops, op)
    /\ IF ok
       THEN spc' = then /\ UNCHANGED ex
       ELSE spc' = BodyLeft /\ ex' = op

\* async with bms: await bms.__aenter__(); if it raises the body is not
\* entered and __aexit__ is not called
AEnter(ok) ==
    /\ InSample
    /\ spc = "__aenter__"
    /\ ops' = Append(ops, "__aenter__")
    /\ IF ok
       THEN spc' = "fetch" /\ acquired' = TRUE /\ UNCHANGED ex
       ELSE spc' = "except" /\ ex' = "__aenter__" /\ UNCHANGED acquired
    /\ UNCHANGED <<has_temps, published, released>>

\* sample = await bms.fetch()
Fetch(ok, temps) ==
    /\ SampleOp("fetch", "publish_sample", ok)
    /\ has_temps' = IF ok THEN temps ELSE has_temps
    /\ UNCHANGED <<published, released, acquired>>

\* publish_sample(mqtt_client, device_topic=bms.name, sample=sample)
PublishSample(ok) ==
    /\ SampleOp("publish_sample", "fetch_voltages", ok)
    /\ published' = IF ok THEN Append(published, "sample") ELSE published
    /\ UNCHANGED <<has_temps, released, acquired>>

\* voltages = await bms.fetch_voltages()
FetchVoltages(ok) ==
    /\ SampleOp("fetch_voltages", "publish_cell_voltages", ok)
    /\ UNCHANGED <<has_temps, published, released, acquired>>

\* publish_cell_voltages(...); then the left operand of `or` is evaluated
PublishCellVoltages(ok) ==
    /\ SampleOp("publish_cell_voltages",
                IF NeedsFetch(has_temps) THEN "fetch_temperatures" ELSE "publish_temperatures", ok)
    /\ published' = IF ok THEN Append(published, "voltages") ELSE published
    /\ UNCHANGED <<has_temps, released, acquired>>

\* await bms.fetch_temperatures()
FetchTemperatures(ok) ==
    /\ SampleOp("fetch_temperatures", "publish_temperatures", ok)
    /\ UNCHANGED <<has_temps, published, released, acquired>>

\* publish_temperatures(...); the body of the with statement is over
PublishTemperatures(ok) ==
    /\ SampleOp("publish_temperatures", "__aexit__", ok)
    /\ published' = IF ok THEN Append(published, "temperatures") ELSE published
    /\ UNCHANGED <<has_temps, released, acquired>>

\* the with statement is left: await bms.__aexit__(...).  The exception of
\* the body, or else the one __aexit__ raises, reaches the except clause.
AExit(ok) ==
    /\ InSample
    /\ spc = "__aexit__"
    /\ ops' = Append(ops, "__aexit__")
    /\ released' = released + 1
    /\ IF ex = "none" \/ Suppressed
       THEN IF ok THEN spc' = "returned" /\ ex' = "none"
                  ELSE spc' = "except" /\ ex' = "__aexit__"
       ELSE spc' = "except" /\ UNCHANGED ex
    /\ UNCHANGED <<has_temps, published, acquired>>

\* except Exception as ex: logger.error(...); raise
Except ==
    /\ InSample
    /\ spc = "except"
    /\ spc' = Handler
    /\ UNCHANGED <<has_temps, ops, published, released, acquired, ex>>

\* sample_bms returns or raises into its caller: the warm-up pass of main,
\* fetch_loop, or main.fn
SampleReturn ==
    /\ InSample
    /\ spc \in {"returned", "raised"}
    /\ IF mpc = "warmup" THEN WarmupDone(spc = "returned")
       ELSE IF parallel_fetch THEN TaskDone(Sampled, spc = "returned")
       ELSE CycleTaskDone(spc = "returned")
    /\ spc' = "__aenter__"
    /\ has_temps' = FALSE
    /\ ops' = <<>>
    /\ published' = <<>>
    /\ released' = 0
    /\ acquired' = FALSE
    /\ ex' = "none"

SampleInit ==
    /\ Init
    /\ bms_list = <<Sampled>>
    /\ extra_tasks = <<>>

\* a statement of sample_bms touches neither main nor the loops
Inside == UNCHANGED <<mvars, counters, rvars>>

SampleNext ==
    \/ on_exit /\ NoCount /\ Apart
    \/ MainStart /\ NoCount /\ Apart
    \/ \E l \in LoopIds : LoopTop(l) /\ NoCount /\ Apart
    \/ MainWaitReturns /\ NoCount /\ Apart
    \/ \E ok \in BOOLEAN : DisconnectDone(ok) /\ NoCount /\ Apart
    \/ ProcessExit /\ NoCount /\ Apart
    \/ \E ok \in BOOLEAN : AEnter(ok) /\ Inside
    \/ \E ok, temps \in BOOLEAN : Fetch(ok, temps) /\ Inside
    \/ \E ok \in BOOLEAN : PublishSample(ok) /\ Inside
    \/ \E ok \in BOOLEAN : FetchVoltages(ok) /\ Inside
    \/ \E ok \in BOOLEAN : PublishCellVoltages(ok) /\ Inside
    \/ \E ok \in BOOLEAN : FetchTemperatures(ok) /\ Inside
    \/ \E ok \in BOOLEAN : PublishTemperatures(ok) /\ Inside
    \/ \E ok \in BOOLEAN : AExit(ok) /\ Inside
    \/ Except /\ Inside
    \/ SampleReturn /\ NoCount /\ UNCHANGED rvars

SampleSpec == SampleInit /\ [][SampleNext]_vars

-----------------------------------------------------------------------------
(* The head of main: bt_discovery and dev2addr.  A string is a sequence of *)
(* characters; the address of the i-th discovered device is a string of i  *)
(* characters that no name and no identifier contains.                     *)

MaxLen == 2
MaxDevices == 2

Chars == {" ", "a"}

Strings == UNION {[1..k -> Chars] : k \in 0..MaxLen}

Addr(i) == [k \in 1..i |-> "#"]

\* str.strip(): leading and trailing whitespace removed
RECURSIVE lstrip(_)
lstrip(s) == IF s # <<>> /\ Head(s) = " " THEN lstrip(Tail(s)) ELSE s

RECURSIVE rstrip(_)
rstrip(s) == IF s # <<>> /\ s[Len(s)] = " " THEN rstrip(SubSeq(s, 1, Len(s) - 1)) ELSE s

strip(s) == rstrip(lstrip(s))

\* a comparison of the names as they are
NameEqRaw(a, b) == a = b

\* d.name.strip() == name.strip()
NameEq(a, b) == strip(a) = strip(b)

\* next(generator, default)
NextOr(gen, default) == IF gen = <<>> THEN default ELSE Head(gen)

\* next((d.address for d in devices if d.name.strip() == name.strip()), name)
dev2addr(name) ==
    LET hits == SelectSeq(devices, LAMBDA d : NameEq(d.name, name))
    IN  NextOr([i \in 1..Len(hits) |-> hits[i].address], name)

\* try: devices = await bt_discovery() except Exception: devices = []
bt_discovery(ok, names) ==
    /\ rpc = "discover"
    /\ devices' = IF ok
                  THEN [i \in 1..Len(names) |-> [name |-> names[i], address |-> Addr(i)]]
                  ELSE <<>>
    /\ rpc' = "resolve"
    /\ UNCHANGED <<identifier, address>>

\* the address handed to the adapter: dev2addr(user_config.get(...))
Resolve ==
    /\ rpc = "resolve"
    /\ address' = <<dev2addr(identifier)>>
    /\ rpc' = "done"
    /\ UNCHANGED <<identifier, devices>>

ResolverInit ==
    /\ MainInit /\ SampleIdle
    /\ ~parallel_fetch /\ bms_list = <<>> /\ extra_tasks = <<>>
    /\ rpc = "discover"
    /\ identifier \in Strings
    /\ devices = <<>>
    /\ address = <<>>

ResolverNext ==
    \/ /\ rpc = "discover"
       /\ \E ok \in BOOLEAN, k \in 0..MaxDevices : \E names \in [1..k -> Strings] :
             bt_discovery(ok, names) /\ UNCHANGED <<mvars, counters, svars>>
    \/ Resolve /\ UNCHANGED <<mvars, counters, svars>>

ResolverSpec == ResolverInit /\ [][ResolverNext]_vars

TypeOK ==
    /\ shutdown \in BOOLEAN
    /\ mpc \in {"setup", "warmup", "wait", "loop", "disconnect", "returned", "crashed", "exited"}
    /\ \A l \in LoopIds :
        /\ lpc[l] \in {"init", "ready", "run", "sleep", "done", "cancelled"}
        /\ num_errors_row[l] \in 0..(max_errors + 1)
        /\ l \notin Loops => lpc[l] = "init"
        /\ ncalls[l] \in 0..MaxCount /\ npub[l] \in 0..MaxCount
    /\ exit_status \in {<<>>, <<ExitCode>>}
    /\ wfirst \in Range(tasks) \cup {"none"}
    /\ dfirst \in Range(bms_list) \cup {"none"}

-----------------------------------------------------------------------------
(* Observations used by the properties *)

Live == {"ready", "run", "sleep"}

\* the tasks a fetch loop is awaiting
LoopFetches ==
    {t \in Range(tasks) :
        \/ parallel_fetch /\ lpc[t] = "run"
        \/ ~parallel_fetch /\ lpc["fn"] = "run" /\ order[idx] = t}

\* the coroutines with an operation in progress on adapter b
Users(b) ==
    {l \in Loops : lpc[l] = "run" /\ (IF parallel_fetch THEN l = b ELSE order[idx] = b)}
    \cup (IF \/ mpc = "warmup" /\ tasks[mi] = b
             \/ mpc = "disconnect" /\ bms_list[mi] = b
          THEN {"main"} ELSE {})

\* positions in trace of the tasks that raised in the cycle
Failed == {i \in 1..Len(trace) : ~trace[i][2]}

FirstFailed == CHOOSE i \in Failed : \A j \in Failed : i <= j

\* the shared loop is between two cycles, or ended after at least one
CycleComplete ==
    /\ ~parallel_fetch
    /\ \/ lpc["fn"] = "sleep"
       \/ lpc["fn"] = "done" /\ last["fn"] # "none"

-----------------------------------------------------------------------------
(* Properties *)

\* C1 as stated: once a loop has counted max_errors consecutive failures it
\* has terminated and its task is not invoked again.
C1_Original ==
    \A l \in Loops : num_errors_row[l] = max_errors => lpc[l] # "run"

\* C1 amended: a loop whose counter exceeds max_errors, that is after
\* max_errors + 1 consecutive failures, has terminated, and a terminated loop
\* stays terminated: its task is never invoked again.
C1_AbortAfterExceeding ==
    [][\A l \in Loops :
          /\ num_errors_row'[l] > max_errors => lpc'[l] = "done"
          /\ lpc[l] = "done" => lpc'[l] = "done"]_vars

C1_Witness ==
    \E l \in Loops :
        lpc[l] = "done" /\ last[l] = "fail" /\ num_errors_row[l] = max_errors + 1

\* C2: when fn() fails, the loop breaks iff the incremented counter exceeds
\* max_errors; otherwise it goes to the period sleep, and a sleeping loop
\* leaves the sleep only for the next call of fn() unless shutdown is set
\* (or the process ends).
C2_AbandonIffExceeds ==
    [][\A l \in Loops :
          /\ (lpc[l] = "run" /\ lpc'[l] \in {"sleep", "done"} /\ last'[l] = "fail") =>
                /\ num_errors_row'[l] = num_errors_row[l] + 1
                /\ lpc'[l] = "done" <=> num_errors_row'[l] > max_errors
                /\ lpc'[l] = "sleep" <=> num_errors_row'[l] <= max_errors
          /\ (lpc[l] = "run" /\ lpc'[l] = "done") => num_errors_row'[l] > max_errors
          /\ (lpc[l] = "sleep" /\ lpc'[l] = "done") => shutdown]_vars

C2_Witness ==
    \E l \in Loops :
        lpc[l] = "run" /\ last[l] = "fail" /\ num_errors_row[l] = max_errors

\* C3: after a successful fn() the counter is zero whatever it was before,
\* so a nonzero counter means the latest fn() failed.
C3_SuccessResets ==
    \A l \in Loops :
        /\ last[l] = "ok" => num_errors_row[l] = 0
        /\ num_errors_row[l] > 0 => last[l] = "fail"

C3_Witness ==
    \E l \in Loops :
        last[l] = "ok" /\ before[l] = max_errors /\ num_errors_row[l] = 0

C5_FlagMonotonic ==
    /\ ~shutdown
    /\ [][/\ shutdown => shutdown'
          /\ (~shutdown /\ shutdown') =>
                \/ UNCHANGED <<mpc, mi, lpc, num_errors_row, cycle>>
                \/ mpc \in {"wait", "loop"} /\ mpc' \in {"disconnect", "returned"}
                \/ mpc = "crashed" /\ mpc' = "exited"
          /\ (shutdown /\ on_exit) => UNCHANGED mvars]_vars

C5_Witness ==
    shutdown /\ mpc \in {"wait", "loop"} /\ \E l \in Loops : lpc[l] \in Live

\* C6: with independent loops, asyncio.wait can return as soon as one loop
\* has ended, whatever the others do; it returns only then, and when main
\* goes on to the disconnect pass the flag is set.
C6_FirstCompleted ==
    [][parallel_fetch =>
          /\ (/\ mpc = "wait"
              /\ \A l \in Loops : lpc[l] # "ready"
              /\ \E l \in Loops : lpc[l] = "done" /\ num_errors_row[l] > max_errors) =>
                ENABLED MainWaitReturns
          /\ (mpc = "wait" /\ mpc' # "wait") =>
                /\ \E l \in Loops : lpc[l] = "done"
                /\ mpc' \in {"disconnect", "returned"}
          /\ mpc' \in {"disconnect", "returned"} => shutdown']_vars

C6_Witness ==
    /\ parallel_fetch /\ mpc = "disconnect" /\ shutdown
    /\ \E l \in Loops : lpc[l] = "done" /\ num_errors_row[l] > max_errors
    /\ \E l \in Loops : lpc[l] \in {"run", "sleep"}

\* C7 as stated: a loop ends only at its own check of the flag or by its own
\* exhausted budget; a loop suspended in fn() or in the sleep is never ended
\* from outside.
C7_CooperativeOnly ==
    [][\A l \in Loops :
          (lpc[l] \in {"run", "sleep"} /\ lpc'[l] \notin {"run", "sleep"}) =>
              /\ lpc'[l] = "done"
              /\ \/ lpc[l] = "sleep" /\ shutdown
                 \/ lpc[l] = "run" /\ num_errors_row'[l] > max_errors]_vars

\* C8 as stated: with independent loops no adapter has operations of two
\* coroutines in progress at once.
C8_ExclusiveAdapter ==
    parallel_fetch => \A b \in Range(bms_list) : Cardinality(Users(b)) <= 1

\* C9: in the shared loop, the order of a cycle is an arrangement of all
\* tasks, the tasks awaited so far are its prefix, and when the cycle is over
\* (the loop sleeps or has broken) every task was awaited exactly once,
\* whether or not earlier ones raised.
C9_FullPass ==
    ~parallel_fetch =>
        /\ lpc["fn"] = "run" =>
              /\ order \in Shuffles(tasks)
              /\ Len(trace) = idx - 1
              /\ \A i \in 1..Len(trace) : trace[i][1] = order[i]
        /\ CycleComplete =>
              /\ Len(trace) = Len(tasks)
              /\ \A t \in Range(tasks) :
                    Cardinality({i \in 1..Len(trace) : trace[i][1] = t}) = 1

C9_Witness ==
    /\ CycleComplete /\ lpc["fn"] = "sleep"
    /\ Len(trace) = 3 /\ order # tasks
    /\ ~trace[1][2] /\ trace[3][2]

\* C10: when a cycle of the shared loop is over, it failed iff some task
\* raised; then fn raised the exception of the first task that raised and
\* the counter is one more than before; else the counter is zero.
C10_CycleOutcome ==
    CycleComplete =>
        /\ last["fn"] = "fail" <=> Failed # {}
        /\ Failed # {} =>
              /\ raised["fn"] = trace[FirstFailed][1]
              /\ num_errors_row["fn"] = before["fn"] + 1
        /\ Failed = {} =>
              /\ last["fn"] = "ok"
              /\ raised["fn"] = "none"
              /\ num_errors_row["fn"] = 0

C10_Witness ==
    /\ CycleComplete /\ lpc["fn"] = "sleep"
    /\ Cardinality(Failed) >= 2 /\ trace[1][2]
    /\ before["fn"] >= 1 /\ num_errors_row["fn"] = before["fn"] + 1

\* C11: with independent loops, a failing fn() of one loop leaves the
\* counter, the position and the latest outcome of every other loop as they
\* were; and while the flag is not set and no counter has exceeded
\* max_errors, a loop ends only by its own failure exceeding max_errors.
C11_FailureIsLocal ==
    [][parallel_fetch => \A l \in Loops :
          /\ (lpc[l] = "run" /\ lpc'[l] \in {"sleep", "done"} /\ last'[l] = "fail") =>
                \A k \in Loops \ {l} :
                    /\ num_errors_row'[k] = num_errors_row[k]
                    /\ lpc'[k] = lpc[k]
                    /\ last'[k] = last[k]
          /\ (/\ ~shutdown
              /\ \A k \in Loops : num_errors_row[k] <= max_errors
              /\ lpc[l] \in Live /\ lpc'[l] \notin Live) =>
                /\ lpc[l] = "run" /\ last'[l] = "fail"
                /\ num_errors_row'[l] > max_errors]_vars

C11_Witness ==
    /\ parallel_fetch /\ ~shutdown /\ mpc = "wait"
    /\ \E l, k \in Loops :
          /\ l # k
          /\ last[l] = "fail" /\ num_errors_row[l] = max_errors /\ lpc[l] = "sleep"
          /\ last[k] = "ok" /\ num_errors_row[k] = 0 /\ lpc[k] = "run"

\* C12: shared loop, daly_bms always succeeding, jbd_bms always failing, no
\* signal: the loop makes at most max_errors + 1 = 5 cycles and ends after
\* exactly that many; after every completed cycle daly_bms has published
\* once per cycle (5 times at the end) and jbd_bms never; once the loop has
\* ended no task is awaited; the process eventually exits, with a status
\* other than 0.
C12_SharedScenario ==
    /\ [](~parallel_fetch =>
            /\ ncalls["fn"] <= max_errors + 1
            /\ npub["jbd_bms"] = 0
            /\ CycleComplete => npub["daly_bms"] = ncalls["fn"]
            /\ lpc["fn"] = "run" => npub["daly_bms"] \in {ncalls["fn"] - 1, ncalls["fn"]}
            /\ lpc["fn"] = "done" =>
                  /\ ncalls["fn"] = max_errors + 1
                  /\ npub["daly_bms"] = max_errors + 1
                  /\ LoopFetches = {}
            /\ mpc = "exited" => lpc["fn"] = "done" /\ exit_status # <<>> /\ exit_status[1] # 0)
    /\ [][~parallel_fetch /\ lpc["fn"] = "done" => UNCHANGED <<lpc, ncalls, npub>>]_vars
    /\ (~parallel_fetch => <>(mpc = "exited"))

C12_Witness ==
    /\ ~parallel_fetch /\ mpc = "exited" /\ exit_status = <<1>>
    /\ ncalls["fn"] = 5 /\ npub["daly_bms"] = 5 /\ num_errors_row["fn"] = 5

\* C13: independent loops, daly_bms succeeding, jbd_bms always failing, no
\* signal: the loop of jbd_bms ends after exactly max_errors + 1 = 5 calls;
\* asyncio.wait can return and returns only then, with the loop of daly_bms
\* still in fn() or in its sleep, and main sets the flag in the same step;
\* from then on the loop of daly_bms begins no call of fn(), and it
\* eventually stops (at its own check, or with the process).
C13_IndependentScenario ==
    /\ [](parallel_fetch =>
            /\ ncalls["jbd_bms"] <= max_errors + 1
            /\ lpc["jbd_bms"] = "done" =>
                  ncalls["jbd_bms"] = max_errors + 1 /\ npub["jbd_bms"] = 0
            /\ (mpc = "wait" /\ lpc["jbd_bms"] = "done" /\ lpc["daly_bms"] # "ready") =>
                  ENABLED ScMainWaitReturns)
    /\ [][parallel_fetch =>
            /\ (mpc = "wait" /\ mpc' # "wait") =>
                  /\ lpc["jbd_bms"] = "done"
                  /\ lpc["daly_bms"] \in {"run", "sleep"}
                  /\ shutdown' /\ mpc' = "disconnect"
            /\ (shutdown /\ lpc["daly_bms"] # "run") => lpc'["daly_bms"] # "run"
            /\ shutdown => ncalls'["daly_bms"] = ncalls["daly_bms"]]_vars
    /\ (parallel_fetch => <>(lpc["jbd_bms"] = "done" /\ lpc["daly_bms"] \notin Live))

C13_Witness ==
    /\ parallel_fetch /\ shutdown /\ mpc = "disconnect"
    /\ lpc["jbd_bms"] = "done" /\ ncalls["jbd_bms"] = 5
    /\ lpc["daly_bms"] = "run" /\ npub["daly_bms"] >= 1

\* C14: in sample_bms, once bms.__aenter__ has returned, bms.__aexit__ runs
\* exactly once before sample_bms is left (and never before that, never
\* twice), whichever step failed; an invocation in which a step failed ends
\* by raising, never by returning; and the fetch loop that called it counts
\* one more failure.
C14_ReleaseAndPropagate ==
    /\ [](/\ released <= 1
          /\ ~acquired => released = 0
          /\ (acquired /\ spc \in {"except", "returned", "raised"}) => released = 1
          /\ (ex # "none" /\ spc \notin {"__aexit__", "except"}) => spc = "raised"
          /\ spc = "returned" => ex = "none"
          /\ spc = "raised" => ex # "none")
    /\ [][(spc = "raised" /\ spc' = "__aenter__" /\ lpc[Caller] = "run") =>
            /\ last'[Caller] = "fail"
            /\ raised'[Caller] # "none"
            /\ num_errors_row'[Caller] = num_errors_row[Caller] + 1]_vars

C14_Witness ==
    /\ spc = "raised" /\ ex = "fetch_voltages" /\ acquired /\ released = 1
    /\ lpc[Caller] = "run" /\ num_errors_row[Caller] = 2

\* the steps of the with body in the order of src, for a sample with
\* (present) or without temperatures
Plan(present) ==
    <<"fetch", "publish_sample", "fetch_voltages", "publish_cell_voltages">>
    \o (IF present THEN <<>> ELSE <<"fetch_temperatures">>)
    \o <<"publish_temperatures">>

\* what a publish step hands to the sink
Output(op) ==
    CASE op = "publish_sample" -> "sample"
      [] op = "publish_cell_voltages" -> "voltages"
      [] op = "publish_temperatures" -> "temperatures"
      [] OTHER -> "nothing"

\* the steps of the with body that the invocation began
BodyOps == SelectSeq(ops, LAMBDA o : o \notin {"__aenter__", "__aexit__"})

\* the steps of the with body that returned
BodyDone ==
    IF ex \in Range(Plan(FALSE)) THEN SubSeq(BodyOps, 1, Len(BodyOps) - 1) ELSE BodyOps

RECURSIVE Outputs(_)
Outputs(seq) ==
    IF seq = <<>> THEN <<>>
    ELSE (IF Output(Head(seq)) = "nothing" THEN <<>> ELSE <<Output(Head(seq))>>) \o Outputs(Tail(seq))

\* C19: the steps an invocation of sample_bms began are an initial part of
\* fetch, publish_sample, fetch_voltages, publish_cell_voltages,
\* [fetch_temperatures, only for a sample without temperatures],
\* publish_temperatures; a step is begun only when every step before it has
\* returned; and what was published is exactly the output of the publish
\* steps that returned, so that nothing of the failing step or of a later
\* one is published.
C19_StepOrder ==
    /\ Len(BodyOps) <= Len(Plan(has_temps))
    /\ BodyOps = SubSeq(Plan(has_temps), 1, Len(BodyOps))
    /\ published = Outputs(BodyDone)
    /\ ex \in Range(Plan(FALSE)) => BodyOps[Len(BodyOps)] = ex
    /\ "publish_temperatures" \in Range(ops) =>
          ("fetch_temperatures" \in Range(ops) <=> ~has_temps)
    /\ spc = "returned" => BodyOps = Plan(has_temps) /\ Len(published) = 3

C19_Witness ==
    /\ spc = "raised" /\ ex = "fetch_temperatures" /\ ~has_temps
    /\ published = <<"sample", "voltages">>

\* C15: once the scheduler has returned main calls disconnect() on the
\* adapters of bms_list in order, each once: during the pass the adapters
\* done are those before the current one, and when main has returned (and
\* when the process has exited) they are exactly bms_list; a disconnect()
\* that raises does not end main, which is never ended by the pass.
C15_DisconnectPass ==
    /\ [](/\ mpc = "disconnect" => disc = SubSeq(bms_list, 1, mi - 1)
          /\ mpc \in {"setup", "warmup", "wait", "loop"} => disc = <<>>
          /\ mpc \in {"returned", "exited"} => disc = bms_list
          /\ mpc = "crashed" => disc = <<>> /\ dfirst = "none")
    /\ [][/\ (mpc \in {"wait", "loop"} /\ mpc' \notin {"wait", "loop"}) =>
                mpc' = IF bms_list = <<>> THEN "returned" ELSE "disconnect"
          /\ (mpc = "disconnect" /\ mpc' # "disconnect") =>
                mpc' = "returned" /\ mi = Len(bms_list)]_vars

C15_Witness ==
    /\ mpc = "exited" /\ Len(bms_list) = 2
    /\ disc = bms_list /\ dfirst = bms_list[1]

\* C18: with independent loops main invokes the tasks in order, each once,
\* while no loop exists; an invocation that raises does not end main; when
\* the last one is over every loop is created, with counter 0 and no
\* outcome, and nothing that happens in the warm-up pass changes a counter.
C18_WarmupPass ==
    /\ [](parallel_fetch =>
            /\ mpc = "setup" => warm = <<>>
            /\ mpc = "warmup" =>
                  /\ warm = SubSeq(tasks, 1, mi - 1)
                  /\ \A l \in LoopIds : lpc[l] = "init" /\ num_errors_row[l] = 0
            /\ mpc \notin {"setup", "warmup"} => warm = tasks
            /\ (\E l \in LoopIds : lpc[l] # "init") => warm = tasks)
    /\ [][(parallel_fetch /\ mpc = "warmup") =>
            /\ mpc' \in {"warmup", "wait"}
            /\ UNCHANGED <<num_errors_row, last, before, raised>>
            /\ mpc' = "wait" =>
                  /\ mi = Len(tasks)
                  /\ \A l \in Loops : lpc'[l] = "ready" /\ num_errors_row'[l] = 0]_vars

C18_Witness ==
    /\ parallel_fetch /\ mpc = "wait" /\ Len(tasks) = 3
    /\ warm = tasks /\ wfirst = tasks[1]
    /\ \A l \in Loops : lpc[l] = "ready" /\ num_errors_row[l] = 0 /\ last[l] = "none"

\* C20 as stated: with no task configured main awaits no task, is not ended
\* by an exception, and leaves the scheduler only with the flag set, towards
\* the (empty) disconnect pass.
C20_EmptyTaskSet ==
    Len(tasks) = 0 =>
        /\ LoopFetches = {}
        /\ mpc # "crashed"
        /\ mpc \in {"disconnect", "returned", "exited"} => shutdown

\* C17 as stated: once the flag is set, eventually every loop has left its
\* while loop (none was ended from outside) and main has completed the
\* disconnect pass over all adapters.
C17_ShutdownLiveness ==
    shutdown ~> (/\ \A l \in Loops : lpc[l] = "done"
                 /\ mpc \in {"returned", "exited"}
                 /\ disc = bms_list)

\* C16: what dev2addr returns for the identifier is the address of the first
\* device of the snapshot whose name, without its leading and trailing
\* blanks, equals the identifier without its leading and trailing blanks;
\* when there is no such device (the snapshot is empty, discovery failed) it
\* is the identifier itself, blanks included.  It always returns a value.
C16_Resolution ==
    LET Trimmed(s) ==
            LET solid == {i \in 1..Len(s) : s[i] # " "}
            IN  IF solid = {} THEN <<>>
                ELSE SubSeq(s, CHOOSE i \in solid : \A j \in solid : i <= j,
                               CHOOSE i \in solid : \A j \in solid : i >= j)
        matching == {i \in 1..Len(devices) : Trimmed(devices[i].name) = Trimmed(identifier)}
    IN  /\ rpc # "done" => address = <<>>
        /\ rpc = "done" =>
              /\ Len(address) = 1
              /\ matching = {} => address[1] = identifier
              /\ matching # {} =>
                    address[1] = devices[CHOOSE i \in matching : \A j \in matching : i <= j].address
              /\ devices = <<>> => address[1] = identifier

C16_Witness ==
    /\ rpc = "done" /\ Len(devices) = 2
    /\ identifier = <<"a", " ">>
    /\ devices[1].name = <<" ", "a">> /\ devices[2].name = <<"a">>
    /\ address = <<devices[1].address>>

====
